---- MODULE Spec2Model ----
(***************************************************************************)
(* The Scene of the engine: the one-time start pass, the per-frame update  *)
(* loop and the per-frame draw (layer ordering, glow filter, letterboxed   *)
(* viewport, camera transform), translated from the Scene class.           *)
(*                                                                         *)
(* JavaScript numbers are modelled as exact rationals <<n, d>> (d > 0, in  *)
(* lowest terms); the canvas is taken to have positive width and height,   *)
(* so no division yields Infinity or NaN.                                  *)
(*                                                                         *)
(* A game object is its position in gameObjects (insertion order).  The    *)
(* hooks of the game objects are game code: the model records that a hook  *)
(* was invoked, and with which context state, and lets any one hook of a   *)
(* call raise.                                                             *)
(*                                                                         *)
(* The snake game's KeyboardComponent (its update: the arrow keys, the     *)
(* move timer, the move of the head and of the body part behind it) is     *)
(* modelled beside the Scene, under a specification of its own.            *)
(***************************************************************************)
EXTENDS Integers, Sequences, FiniteSets

VARIABLES
    gameObjects,   \* Scene.gameObjects: sequence of [layer, start, update, draw]
    hasStarted,    \* Scene.hasStarted
    logicalWidth,  \* Scene.logicalWidth (rational)
    aspectRatio,   \* Scene.aspectRatio (rational)
    sceneStart,    \* whether the scene (a subclass) defines its own start hook
    canvas,        \* ctx.canvas: [width, height]
    camera,        \* Camera.main.transform: [x, y, scaleX, scaleY]
    ctx,           \* the rendering context: [transform, filter, fillStyle, stack]
    call,          \* the last Scene call: [name, raised, entry]
    trace,         \* what the last Scene call did, in order
    startCount,    \* per game object: how often its start hook was invoked
    startLog,      \* the _start calls so far: [calls (0, 1, 2 for two or more),
                   \* len (of gameObjects at the first), raised]
    keyboard,      \* a KeyboardComponent: [timeLeftToMove, nextMove, x, y (its
                   \* transform), body (the transforms <<x, y>> of nextBodyPart,
                   \* of that one's nextBodyPart, and so on)]
    input          \* Input.keysDown and Time.deltaTime at its last update

vars == <<gameObjects, hasStarted, logicalWidth, aspectRatio, sceneStart,
          canvas, camera, ctx, call, trace, startCount, startLog, keyboard,
          input>>

-----------------------------------------------------------------------------
(* Bounds of the model *)

MaxObjects == 2
MaxSaveDepth == 1
MaxDistance == 1

-----------------------------------------------------------------------------
(* Numbers *)

Abs(n) == IF n < 0 THEN -n ELSE n

RECURSIVE Gcd(_, _)
Gcd(a, b) == IF b = 0 THEN a ELSE Gcd(b, a % b)

\* The rational n/d in lowest terms with a positive denominator (d # 0).
Rat(n, d) ==
    LET g == Gcd(Abs(n), Abs(d))
        s == IF d < 0 THEN -1 ELSE 1
    IN  <<(s * n) \div g, (s * d) \div g>>

Num(n) == <<n, 1>>

RAdd(p, q) == Rat(p[1] * q[2] + q[1] * p[2], p[2] * q[2])
RSub(p, q) == Rat(p[1] * q[2] - q[1] * p[2], p[2] * q[2])
RMul(p, q) == Rat(p[1] * q[1], p[2] * q[2])
RDiv(p, q) == Rat(p[1] * q[2], p[2] * q[1])
RNeg(p) == <<-p[1], p[2]>>
RGt(p, q) == p[1] * q[2] > q[1] * p[2]
RLe(p, q) == p[1] * q[2] <= q[1] * p[2]

-----------------------------------------------------------------------------
(* The rendering context (CanvasRenderingContext2D) as the Scene uses it.  *)
(* The transform is kept as scale (a, d) and offset (e, f): a point (x, y) *)
(* of user space is drawn at pixel (a*x + e, d*y + f).                     *)

Identity == [a |-> Num(1), d |-> Num(1), e |-> Num(0), f |-> Num(0)]

\* What a hook, or the caller, can observe of the context at one moment.
View(c) == [transform |-> c.transform, filter |-> c.filter,
            fillStyle |-> c.fillStyle, depth |-> Len(c.stack)]

\* The trace gets one event per context operation and per hook invoked: what
\* (op, with args), whose hook (obj), the context as the operation leaves it
\* (a hook finds it so), and whether the hook raised.
Event(m, op, obj, args) ==
    [m EXCEPT !.trace = Append(@, [op |-> op, obj |-> obj, args |-> args,
                                   ctx |-> View(m.ctx), threw |-> FALSE])]

SetFillStyle(m, color) == [m EXCEPT !.ctx.fillStyle = color]

FillRect(m, x, y, w, h) == Event(m, "fillRect", 0, <<x, y, w, h>>)

Save(m) ==
    Event([m EXCEPT !.ctx.stack =
               Append(@, [transform |-> m.ctx.transform, filter |-> m.ctx.filter,
                          fillStyle |-> m.ctx.fillStyle])],
          "save", 0, <<>>)

\* A restore that pops nothing.
RestoreNothing(m) == Event(m, "restore", 0, <<>>)

Restore(m) ==
    LET n == Len(m.ctx.stack)
        top == m.ctx.stack[n]
    IN  IF n = 0 THEN Event(m, "restore", 0, <<>>)
        ELSE Event([m EXCEPT !.ctx = [transform |-> top.transform,
                                      filter |-> top.filter,
                                      fillStyle |-> top.fillStyle,
                                      stack |-> SubSeq(m.ctx.stack, 1, n - 1)]],
                   "restore", 0, <<>>)

Translate(m, x, y) ==
    LET t == m.ctx.transform
    IN  Event([m EXCEPT !.ctx.transform =
                   [t EXCEPT !.e = RAdd(t.e, RMul(t.a, x)),
                             !.f = RAdd(t.f, RMul(t.d, y))]],
              "translate", 0, <<x, y>>)

Scale(m, x, y) ==
    LET t == m.ctx.transform
    IN  Event([m EXCEPT !.ctx.transform =
                   [t EXCEPT !.a = RMul(t.a, x), !.d = RMul(t.d, y)]],
              "scale", 0, <<x, y>>)

SetFilter(m, f) == [m EXCEPT !.ctx.filter = f]

\* Invoking hook `op` of game object `obj` (0: the scene itself); it raises
\* when `raises` holds.
Invoke(m, op, obj, raises) ==
    [m EXCEPT !.trace = Append(@, [op |-> op, obj |-> obj, args |-> <<>>,
                                   ctx |-> View(m.ctx), threw |-> raises]),
              !.raised = raises]

Begin == [ctx |-> ctx, trace |-> <<>>, raised |-> FALSE]

-----------------------------------------------------------------------------
(* Scene *)

backgroundColor == "green"

\* Scene._start's loop over this.gameObjects, from position k on.
RECURSIVE StartObjects(_, _, _)
StartObjects(m, k, raiser) ==
    IF m.raised \/ k > Len(gameObjects) THEN m
    ELSE StartObjects(IF gameObjects[k].start
                      THEN Invoke(m, "start", k, k = raiser)
                      ELSE m,
                      k + 1, raiser)

\* A start pass that invokes the scene's own start hook after the game objects'.
StartPassSceneLast(m, sceneRaises, raiser) ==
    LET m1 == StartObjects(m, 1, raiser)
    IN  IF sceneStart /\ ~m1.raised THEN Invoke(m1, "start", 0, sceneRaises) ELSE m1

\* The body of Scene._start once hasStarted has been set.
StartPass(m, sceneRaises, raiser) ==
    LET m1 == IF sceneStart THEN Invoke(m, "start", 0, sceneRaises) ELSE m
    IN  StartObjects(m1, 1, raiser)

\* A _start that runs the start pass on every call.
StartGuardAlways == TRUE

\* Whether _start runs the start pass.
StartGuard == ~hasStarted

\* A _start that leaves the flag as it finds it.
StartFlagUnset == hasStarted

\* The value _start gives hasStarted.
StartFlag == TRUE

windowAspectRatio == RDiv(Num(canvas.height), Num(canvas.width))

\* A test that looks at the logical width alone.
usingLogicalWidthOnly == RGt(logicalWidth, Num(0))

usingLogicalCoordinates ==
    RGt(logicalWidth, Num(0)) /\ RGt(aspectRatio, Num(0))

\* The branch test of the older Scene, which compares the canvas's sides.
LeftRightByCanvas == canvas.width > canvas.height

\* The branch of draw that puts the bars left and right.
LeftRight == RGt(aspectRatio, windowAspectRatio)

\* The top/bottom formula of the older Scene, which takes the content as square.
letterBox1EndSquare ==
    IF LeftRight
    THEN RSub(RDiv(Num(canvas.width), Num(2)),
              RDiv(RDiv(Num(canvas.height), aspectRatio), Num(2)))
    ELSE RDiv(RSub(Num(canvas.height), Num(canvas.width)), Num(2))

letterBox1End ==
    IF LeftRight
    THEN RSub(RDiv(Num(canvas.width), Num(2)),
              RDiv(RDiv(Num(canvas.height), aspectRatio), Num(2)))
    ELSE RSub(RDiv(Num(canvas.height), Num(2)),
              RDiv(RMul(Num(canvas.width), aspectRatio), Num(2)))

letterBox2Start ==
    IF LeftRight
    THEN RAdd(RDiv(Num(canvas.width), Num(2)),
              RDiv(RDiv(Num(canvas.height), aspectRatio), Num(2)))
    ELSE RAdd(RDiv(RMul(Num(canvas.width), aspectRatio), Num(2)),
              RDiv(Num(canvas.height), Num(2)))

scaleFactor ==
    IF LeftRight
    THEN RDiv(Num(canvas.height), logicalWidth)
    ELSE RDiv(Num(canvas.width), RDiv(logicalWidth, aspectRatio))

LetterboxTransform(m) ==
    IF usingLogicalCoordinates
    THEN IF LeftRight
         THEN Scale(Translate(m, letterBox1End, Num(0)), scaleFactor, scaleFactor)
         ELSE Scale(Translate(m, Num(0), letterBox1End), scaleFactor, scaleFactor)
    ELSE m

\* A camera transform that translates before it scales.
CameraTranslateFirst(m) ==
    Scale(Translate(m, RNeg(camera.x), RNeg(camera.y)),
          camera.scaleX, camera.scaleY)

CameraTransform(m) ==
    Translate(Scale(m, camera.scaleX, camera.scaleY),
              RNeg(camera.x), RNeg(camera.y))

\* A comparator that sorts by descending layer.
CompareDescending(a, b) == gameObjects[b].layer - gameObjects[a].layer

\* The comparator of the sort: (a, b) => a.layer - b.layer
Compare(a, b) == gameObjects[a].layer - gameObjects[b].layer

\* A sort that is not stable: i goes before the elements it compares equal to.
RECURSIVE SortInsertUnstable(_, _)
SortInsertUnstable(s, i) ==
    IF s = <<>> \/ Compare(s[Len(s)], i) < 0 THEN Append(s, i)
    ELSE Append(SortInsertUnstable(SubSeq(s, 1, Len(s) - 1), i), s[Len(s)])

\* Array.prototype.sort is stable: i goes after every element that does not
\* compare greater than it.
RECURSIVE SortInsert(_, _)
SortInsert(s, i) ==
    IF s = <<>> \/ Compare(s[Len(s)], i) <= 0 THEN Append(s, i)
    ELSE Append(SortInsert(SubSeq(s, 1, Len(s) - 1), i), s[Len(s)])

RECURSIVE SortPrefix(_)
SortPrefix(k) == IF k = 0 THEN <<>> ELSE SortInsert(SortPrefix(k - 1), k)

\* The sorted copy of gameObjects, as positions in gameObjects.
sortedLayers == SortPrefix(Len(gameObjects))

\* A sort of this.gameObjects itself, in place.
gameObjectsSortedInPlace ==
    [k \in 1..Len(gameObjects) |-> gameObjects[sortedLayers[k]]]

\* this.gameObjects after draw: the spread made a copy, and the sort was of
\* the copy.
gameObjectsAfterSort == gameObjects

\* An update that visits the game objects in layer order, as draw does.
RECURSIVE UpdateObjectsByLayer(_, _, _)
UpdateObjectsByLayer(m, k, raiser) ==
    IF m.raised \/ k > Len(gameObjects) THEN m
    ELSE UpdateObjectsByLayer(
             IF gameObjects[sortedLayers[k]].update
             THEN Invoke(m, "update", sortedLayers[k], sortedLayers[k] = raiser)
             ELSE m,
             k + 1, raiser)

\* Scene.update's loop over this.gameObjects, from position k on.
RECURSIVE UpdateObjects(_, _, _)
UpdateObjects(m, k, raiser) ==
    IF m.raised \/ k > Len(gameObjects) THEN m
    ELSE UpdateObjects(IF gameObjects[k].update
                       THEN Invoke(m, "update", k, k = raiser)
                       ELSE m,
                       k + 1, raiser)

GlowLayer == -1

\* A draw that sets the glow filter and never takes it back.
ApplyFilterNoReset(m, layer) ==
    IF layer = GlowLayer THEN SetFilter(m, "blur(2px)") ELSE m

\* The filter draw sets before it draws an object of this layer.
ApplyFilter(m, layer) ==
    IF layer = GlowLayer THEN SetFilter(m, "blur(2px)") ELSE SetFilter(m, "none")

\* A loop that goes on to the next object after a draw hook raised.
RECURSIVE DrawObjectsIsolated(_, _, _, _)
DrawObjectsIsolated(m, sorted, k, raiser) ==
    IF k > Len(sorted) THEN m
    ELSE LET o == sorted[k]
             m1 == ApplyFilter(m, gameObjects[o].layer)
         IN  DrawObjectsIsolated(IF gameObjects[o].draw
                                 THEN Invoke(m1, "draw", o, o = raiser)
                                 ELSE m1,
                                 sorted, k + 1, raiser)

\* draw's loop over sortedLayers, from position k on.
RECURSIVE DrawObjects(_, _, _, _)
DrawObjects(m, sorted, k, raiser) ==
    IF m.raised \/ k > Len(sorted) THEN m
    ELSE LET o == sorted[k]
             m1 == ApplyFilter(m, gameObjects[o].layer)
         IN  DrawObjects(IF gameObjects[o].draw
                         THEN Invoke(m1, "draw", o, o = raiser)
                         ELSE m1,
                         sorted, k + 1, raiser)

LetterboxBars(m) ==
    IF usingLogicalCoordinates
    THEN IF LeftRight
         THEN FillRect(FillRect(m, Num(0), Num(0), letterBox1End, Num(canvas.height)),
                       letterBox2Start, Num(0), Num(canvas.width), Num(canvas.height))
         ELSE FillRect(FillRect(m, Num(0), Num(0), Num(canvas.width), letterBox1End),
                       Num(0), letterBox2Start, Num(canvas.width), Num(canvas.height))
    ELSE m

\* A draw that fills the letterbox bars before it restores the context.
DrawFrameBarsFirst(m, raiser) ==
    LET m1 == FillRect(SetFillStyle(m, backgroundColor),
                       Num(0), Num(0), Num(canvas.width), Num(canvas.height))
        m4 == DrawObjects(CameraTransform(LetterboxTransform(Save(m1))),
                          sortedLayers, 1, raiser)
    IN  IF m4.raised THEN m4
        ELSE Restore(LetterboxBars(SetFillStyle(m4, "black")))

\* A draw that restores the context also when a draw hook raises.
DrawFrameRestoring(m, raiser) ==
    LET m1 == FillRect(SetFillStyle(m, backgroundColor),
                       Num(0), Num(0), Num(canvas.width), Num(canvas.height))
        m4 == DrawObjects(CameraTransform(LetterboxTransform(Save(m1))),
                          sortedLayers, 1, raiser)
    IN  IF m4.raised THEN Restore(m4)
        ELSE LetterboxBars(SetFillStyle(Restore(m4), "black"))

\* The body of Scene.draw; a raising hook leaves it at once.
DrawFrame(m, raiser) ==
    LET m1 == FillRect(SetFillStyle(m, backgroundColor),
                       Num(0), Num(0), Num(canvas.width), Num(canvas.height))
        m2 == Save(m1)
        m3 == CameraTransform(LetterboxTransform(m2))
        m4 == DrawObjects(m3, sortedLayers, 1, raiser)
    IN  IF m4.raised THEN m4
        ELSE LetterboxBars(SetFillStyle(Restore(m4), "black"))

-----------------------------------------------------------------------------
(* KeyboardComponent *)

up == "UP"
down == "DOWN"
left == "LEFT"
right == "RIGHT"

\* What the constructor sets.
timeBetweenMoves == Num(1)
speed == 10

\* nextMove after the four key tests, made in this order.
NextMove(nextMove, keysDown) ==
    LET n1 == IF "ArrowLeft" \in keysDown THEN left ELSE nextMove
        n2 == IF "ArrowRight" \in keysDown THEN right ELSE n1
        n3 == IF "ArrowUp" \in keysDown THEN up ELSE n2
    IN  IF "ArrowDown" \in keysDown THEN down ELSE n3

\* A loop that goes down the whole chain: every body part takes the place of
\* the one before it.
MoveBodyChain(body, movingFromX, movingFromY) ==
    [i \in 1..Len(body) |->
        IF i = 1 THEN <<movingFromX, movingFromY>> ELSE body[i - 1]]

\* The while loop over the body parts, which breaks after the first.
MoveBody(body, movingFromX, movingFromY) ==
    IF body = <<>> THEN body
    ELSE [body EXCEPT ![1] = <<movingFromX, movingFromY>>]

\* The component k after update() with these keys down and this Time.deltaTime.
KeyboardUpdate(k, keysDown, deltaTime) ==
    LET nextMove == NextMove(k.nextMove, keysDown)
        timeLeftToMove == RSub(k.timeLeftToMove, deltaTime)
        y1 == IF nextMove = up THEN k.y - speed ELSE k.y
        y2 == IF nextMove = down THEN y1 + speed ELSE y1
        x1 == IF nextMove = left THEN k.x - speed ELSE k.x
        x2 == IF nextMove = right THEN x1 + speed ELSE x1
    IN  IF RLe(timeLeftToMove, Num(0))
        THEN [timeLeftToMove |-> timeBetweenMoves, nextMove |-> nextMove,
              x |-> x2, y |-> y2, body |-> MoveBody(k.body, k.x, k.y)]
        ELSE [k EXCEPT !.timeLeftToMove = timeLeftToMove, !.nextMove = nextMove]

-----------------------------------------------------------------------------
(* Inputs *)

\* The arrow keys that update() looks for in Input.keysDown.
ArrowKeys == {"ArrowLeft", "ArrowRight", "ArrowUp", "ArrowDown"}

\* The values of Time.deltaTime: half a move period, and a period and a half.
DeltaTimes == {Rat(1, 2), Rat(3, 2)}

\* The body parts behind the component: none, one, or two in a chain.
Bodies == {<<>>, << <<0, -10>> >>, << <<0, -10>>, <<0, -20>> >>}

\* The game objects game code may add: [layer, start, update, draw], the last
\* three telling which hooks the object has.
GameObjectKinds ==
    {[layer |-> 5, start |-> TRUE, update |-> FALSE, draw |-> TRUE],
     [layer |-> 3, start |-> TRUE, update |-> TRUE, draw |-> TRUE],
     [layer |-> GlowLayer, start |-> FALSE, update |-> TRUE, draw |-> TRUE],
     [layer |-> -2, start |-> TRUE, update |-> TRUE, draw |-> FALSE]}

CanvasSizes == {[width |-> 800, height |-> 400], [width |-> 400, height |-> 600]}

\* <<logicalWidth, aspectRatio>>
LogicalCoordinates ==
    {<<Num(-1), Num(-1)>>, <<Num(20), Num(1)>>, <<Num(20), Num(2)>>,
     <<Num(30), Rat(1, 2)>>, <<Num(0), Num(1)>>, <<Num(20), Num(0)>>}

CameraTransforms ==
    {[x |-> Num(0), y |-> Num(0), scaleX |-> Num(1), scaleY |-> Num(1)],
     [x |-> Num(5), y |-> Num(-3), scaleX |-> Num(2), scaleY |-> Rat(1, 2)]}

Idle == [name |-> "none", raised |-> FALSE, entry |-> View(ctx)]

\* The hooks of `op` that may be chosen to raise: none (0), or one object that has it.
Raisers(op) ==
    {0} \cup {i \in 1..Len(gameObjects) : gameObjects[i][op]}

Count(seq, op, obj) ==
    Cardinality({p \in 1..Len(seq) : seq[p].op = op /\ seq[p].obj = obj})

Min(a, b) == IF a < b THEN a ELSE b

-----------------------------------------------------------------------------
(* State machine.  Each Scene call is one step; m is the context and the    *)
(* trace when the call returns or raises.                                  *)

\* A scene as constructed, drawn to a fresh context.
Constructed ==
    /\ hasStarted = FALSE
    /\ ctx = [transform |-> Identity, filter |-> "none",
              fillStyle |-> "black", stack |-> <<>>]
    /\ call = [name |-> "none", raised |-> FALSE, entry |-> View(ctx)]
    /\ trace = <<>>
    /\ startLog = [calls |-> 0, len |-> 0, raised |-> FALSE]

\* A KeyboardComponent as constructed, at the origin, before any update.
KeyboardConstructed ==
    /\ keyboard.timeLeftToMove = Num(1)
    /\ keyboard.nextMove = down
    /\ keyboard.x = 0 /\ keyboard.y = 0
    /\ input = [keysDown |-> {}, deltaTime |-> Num(0)]

\* The scenes of Spec: a scene as constructed (no game objects, logical
\* coordinates off), with or without a start hook of its own, on one canvas.
Init ==
    /\ Constructed
    /\ gameObjects = <<>>
    /\ startCount = <<>>
    /\ sceneStart \in BOOLEAN
    /\ logicalWidth = Num(-1)
    /\ aspectRatio = Num(-1)
    /\ canvas = [width |-> 800, height |-> 400]
    /\ camera = [x |-> Num(5), y |-> Num(-3), scaleX |-> Num(2), scaleY |-> Rat(1, 2)]
    /\ keyboard = [timeLeftToMove |-> Num(1), nextMove |-> down, x |-> 0, y |-> 0,
                   body |-> <<>>]
    /\ KeyboardConstructed

\* The scenes of SpecViewport: a scene set up with two game objects, and any
\* canvas, logical coordinates and camera.
InitViewport ==
    /\ Constructed
    /\ gameObjects = <<[layer |-> 3, start |-> TRUE, update |-> TRUE, draw |-> TRUE],
                       [layer |-> GlowLayer, start |-> TRUE, update |-> TRUE, draw |-> TRUE]>>
    /\ startCount = <<0, 0>>
    /\ sceneStart = FALSE
    /\ \E lc \in LogicalCoordinates :
          logicalWidth = lc[1] /\ aspectRatio = lc[2]
    /\ canvas \in CanvasSizes
    /\ camera \in CameraTransforms
    /\ keyboard = [timeLeftToMove |-> Num(1), nextMove |-> down, x |-> 0, y |-> 0,
                   body |-> <<>>]
    /\ KeyboardConstructed

\* Game code adds a game object to scene.gameObjects.
AddGameObject ==
    /\ Len(gameObjects) < MaxObjects
    /\ \E o \in GameObjectKinds : gameObjects' = Append(gameObjects, o)
    /\ startCount' = Append(startCount, 0)
    /\ call' = Idle
    /\ trace' = <<>>
    /\ UNCHANGED <<hasStarted, logicalWidth, aspectRatio, sceneStart, canvas,
                   camera, ctx, startLog, keyboard, input>>

\* Game code sets scene.logicalWidth and scene.aspectRatio.
SetLogicalCoordinates ==
    /\ \E lc \in LogicalCoordinates :
          /\ <<logicalWidth, aspectRatio>> # lc
          /\ logicalWidth' = lc[1]
          /\ aspectRatio' = lc[2]
    /\ call' = Idle
    /\ trace' = <<>>
    /\ UNCHANGED <<gameObjects, hasStarted, sceneStart, canvas, camera, ctx,
                   startCount, startLog, keyboard, input>>

\* The window, and with it the canvas, is resized.
ResizeCanvas ==
    /\ \E c \in CanvasSizes : c # canvas /\ canvas' = c
    /\ call' = Idle
    /\ trace' = <<>>
    /\ UNCHANGED <<gameObjects, hasStarted, logicalWidth, aspectRatio, sceneStart,
                   camera, ctx, startCount, startLog, keyboard, input>>

\* Game code moves or zooms the main camera.
MoveCamera ==
    /\ \E c \in CameraTransforms : c # camera /\ camera' = c
    /\ call' = Idle
    /\ trace' = <<>>
    /\ UNCHANGED <<gameObjects, hasStarted, logicalWidth, aspectRatio, sceneStart,
                   canvas, ctx, startCount, startLog, keyboard, input>>

_start ==
    /\ \E sceneRaises \in BOOLEAN, raiser \in Raisers("start") :
          /\ sceneRaises => sceneStart /\ raiser = 0
          /\ \E m \in {IF StartGuard THEN StartPass(Begin, sceneRaises, raiser)
                      ELSE Begin} :
                 /\ hasStarted' = IF StartGuard THEN StartFlag ELSE hasStarted
                 /\ ctx' = m.ctx
                 /\ trace' = m.trace
                 /\ call' = [name |-> "start", raised |-> m.raised,
                             entry |-> View(ctx)]
                 /\ startCount' = [i \in 1..Len(gameObjects) |->
                                      startCount[i] + Count(m.trace, "start", i)]
                 /\ startLog' = IF startLog.calls = 0
                                THEN [calls |-> 1, len |-> Len(gameObjects),
                                      raised |-> m.raised]
                                ELSE [startLog EXCEPT
                                         !.calls = Min(@ + 1, 2),
                                         !.raised = @ \/ m.raised]
    /\ UNCHANGED <<gameObjects, logicalWidth, aspectRatio, sceneStart, canvas,
                   camera, keyboard, input>>

update ==
    /\ \E raiser \in Raisers("update") :
          \E m \in {UpdateObjects(Begin, 1, raiser)} :
              /\ ctx' = m.ctx
              /\ trace' = m.trace
              /\ call' = [name |-> "update", raised |-> m.raised,
                          entry |-> View(ctx)]
    /\ UNCHANGED <<gameObjects, hasStarted, logicalWidth, aspectRatio, sceneStart,
                   canvas, camera, startCount, startLog, keyboard, input>>

draw ==
    /\ \E raiser \in Raisers("draw") :
          /\ raiser # 0 => Len(ctx.stack) < MaxSaveDepth
          /\ \E m \in {DrawFrame(Begin, raiser)} :
                 /\ ctx' = m.ctx
                 /\ trace' = m.trace
                 /\ call' = [name |-> "draw", raised |-> m.raised,
                             entry |-> View(ctx)]
    /\ gameObjects' = gameObjectsAfterSort
    /\ UNCHANGED <<hasStarted, logicalWidth, aspectRatio, sceneStart,
                   canvas, camera, startCount, startLog, keyboard, input>>

Next ==
    \/ AddGameObject
    \/ _start
    \/ update
    \/ draw

Spec == Init /\ [][Next]_vars

NextViewport ==
    \/ SetLogicalCoordinates
    \/ ResizeCanvas
    \/ MoveCamera
    \/ draw

SpecViewport == InitViewport /\ [][NextViewport]_vars

\* A KeyboardComponent as constructed, with any of the chains of body parts
\* behind it, beside an empty scene.
InitKeyboard ==
    /\ \E body \in Bodies :
          keyboard = [timeLeftToMove |-> Num(1), nextMove |-> down, x |-> 0, y |-> 0,
                      body |-> body]
    /\ KeyboardConstructed
    /\ Constructed
    /\ gameObjects = <<>>
    /\ startCount = <<>>
    /\ sceneStart = FALSE
    /\ logicalWidth = Num(-1)
    /\ aspectRatio = Num(-1)
    /\ canvas = [width |-> 800, height |-> 400]
    /\ camera = [x |-> Num(0), y |-> Num(0), scaleX |-> Num(1), scaleY |-> Num(1)]

\* KeyboardComponent.update(), with any arrow keys down and any frame time,
\* while the component stays within MaxDistance moves of the origin.
KeyboardComponent_update ==
    /\ \E keysDown \in SUBSET ArrowKeys, deltaTime \in DeltaTimes :
          \E k \in {KeyboardUpdate(keyboard, keysDown, deltaTime)} :
              /\ Abs(k.x) + Abs(k.y) <= MaxDistance * speed
              /\ keyboard' = k
              /\ input' = [keysDown |-> keysDown, deltaTime |-> deltaTime]
    /\ UNCHANGED <<gameObjects, hasStarted, logicalWidth, aspectRatio, sceneStart,
                   canvas, camera, ctx, call, trace, startCount, startLog>>

NextKeyboard == KeyboardComponent_update

SpecKeyboard == InitKeyboard /\ [][NextKeyboard]_vars

-----------------------------------------------------------------------------
(* Properties *)

\* The positions of the trace that invoke hook `op`.
Hooks(op) == {p \in 1..Len(trace) : trace[p].op = op}

Returned(name) == call.name = name /\ ~call.raised

\* C1: after two or more _start calls, none of which raised, every game
\* object that was in the collection at the first call and has a start hook
\* has had it invoked exactly once, no object more than once, and a call
\* after the first does nothing.
C1_StartHooksOnce ==
    /\ (startLog.calls >= 2 /\ ~startLog.raised) =>
          \A i \in 1..Len(gameObjects) :
              /\ (gameObjects[i].start /\ i <= startLog.len) => startCount[i] = 1
              /\ startCount[i] <= 1
    /\ (startLog.calls >= 2 /\ call.name = "start") =>
          trace = <<>> /\ View(ctx) = call.entry

C1_Witness ==
    /\ startLog = [calls |-> 2, len |-> 2, raised |-> FALSE]
    /\ call.name = "start"
    /\ Len(gameObjects) = 2
    /\ gameObjects[1].start /\ gameObjects[2].start
    /\ startCount = <<1, 1>>

\* C2: within one draw call the draw hooks are invoked in ascending order of
\* layer: an object is never drawn before one of a lower layer.
C2_DrawAscendingLayers ==
    call.name = "draw" =>
        \A p, q \in Hooks("draw") :
            p < q => gameObjects[trace[p].obj].layer <= gameObjects[trace[q].obj].layer

\* A layer-5 object added before a layer-3 object is drawn after it.
C2_Witness ==
    /\ Returned("draw")
    /\ Len(gameObjects) = 2
    /\ gameObjects[1].layer = 5 /\ gameObjects[2].layer = 3
    /\ \E p, q \in Hooks("draw") : p < q /\ trace[p].obj = 2 /\ trace[q].obj = 1

\* C3: whenever draw invokes an object's draw hook, the context's filter is
\* the blur filter if the object's layer is -1 and "none" otherwise, whatever
\* was drawn before it.
C3_GlowOnlyOnGlowLayer ==
    call.name = "draw" =>
        \A p \in Hooks("draw") :
            trace[p].ctx.filter =
                IF gameObjects[trace[p].obj].layer = -1 THEN "blur(2px)" ELSE "none"

\* A glow object is drawn, then one that does not glow, in a frame that began
\* with the blur filter left on.
C3_Witness ==
    /\ call.name = "draw"
    /\ call.entry.filter = "blur(2px)"
    /\ \E p, q \in Hooks("draw") :
          /\ p < q
          /\ gameObjects[trace[p].obj].layer = -1
          /\ gameObjects[trace[q].obj].layer # -1

\* The translate and scale operations of the trace, in order.
Transforms ==
    LET IsTransform(e) == e.op \in {"translate", "scale"}
        t == SelectSeq(trace, IsTransform)
    IN  [p \in 1..Len(t) |-> <<t[p].op, t[p].args>>]

\* The rectangles filled in the trace, in order: <<x, y, w, h>>.
Rects ==
    LET IsRect(e) == e.op = "fillRect"
        t == SelectSeq(trace, IsRect)
    IN  [p \in 1..Len(t) |-> t[p].args]

\* C4: a draw that returns has saved the context once and restored it once,
\* in that order, and leaves the transform and the depth of the save stack as
\* it found them, whatever the letterbox branch and the camera.
C4_SaveRestoreBalanced ==
    Returned("draw") =>
        /\ Cardinality(Hooks("save")) = 1
        /\ Cardinality(Hooks("restore")) = 1
        /\ \A p \in Hooks("save"), q \in Hooks("restore") : p < q
        /\ ctx.transform = call.entry.transform
        /\ Len(ctx.stack) = call.entry.depth

\* A top/bottom letterboxed frame under a zooming camera, begun with a
\* transform other than the identity.
C4_Witness ==
    /\ Returned("draw")
    /\ Len(Rects) = 3
    /\ Rects[2][1] = Num(0) /\ Rects[3][1] = Num(0) /\ Rects[3][2] # Num(0)
    /\ camera.scaleX = Num(2)
    /\ call.entry.transform # Identity

\* C5: with logicalWidth <= 0 or aspectRatio <= 0, the only transforms draw
\* applies are the camera's scale and then the camera's translate, and the
\* only rectangle it fills is the background.
C5_NoLetterboxWithoutLogicalCoordinates ==
    (call.name = "draw" /\ (RLe(logicalWidth, Num(0)) \/ RLe(aspectRatio, Num(0)))) =>
        /\ Transforms = << <<"scale", <<camera.scaleX, camera.scaleY>>>>,
                           <<"translate", <<RNeg(camera.x), RNeg(camera.y)>>>> >>
        /\ Rects = << <<Num(0), Num(0), Num(canvas.width), Num(canvas.height)>> >>

C5_Witness ==
    /\ Returned("draw")
    /\ logicalWidth = Num(0) /\ aspectRatio = Num(1)
    /\ camera.scaleX = Num(2)
    /\ Len(Transforms) = 2

\* C6: an update that returns has invoked the update hook of every game
\* object that has one, once each, in insertion order, and nothing else; a
\* draw that returns has invoked the draw hook of every game object that has
\* one, once each.
C6_EveryHookOnceInInsertionOrder ==
    /\ Returned("update") =>
          /\ \A i \in 1..Len(gameObjects) :
                Count(trace, "update", i) = IF gameObjects[i].update THEN 1 ELSE 0
          /\ \A p \in 1..Len(trace) : trace[p].op = "update"
          /\ \A p, q \in 1..Len(trace) : p < q => trace[p].obj < trace[q].obj
    /\ Returned("draw") =>
          \A i \in 1..Len(gameObjects) :
              Count(trace, "draw", i) = IF gameObjects[i].draw THEN 1 ELSE 0

\* The first game object has no update hook, the second has one and is updated.
C6_Witness ==
    /\ Returned("update")
    /\ Len(gameObjects) = 2
    /\ ~gameObjects[1].update /\ gameObjects[2].update
    /\ Len(trace) = 1 /\ trace[1].obj = 2

\* C7: hasStarted is false until the first _start call, true after it, never
\* goes back to false, and start hooks are invoked only in the step that
\* takes it from false to true.
C7_HasStartedOnce ==
    [][/\ startLog.calls = 0 => ~hasStarted
       /\ hasStarted => hasStarted'
       /\ startLog'.calls > 0 => hasStarted'
       /\ hasStarted' # hasStarted => startLog.calls = 0 /\ startLog'.calls = 1
       /\ (\/ \E i \in 1..Len(startCount) : startCount'[i] # startCount[i]
           \/ call'.name = "start" /\ trace' # <<>>)
             => ~hasStarted /\ hasStarted']_vars

\* A second _start call, after a first that invoked a start hook.
C7_Witness ==
    /\ hasStarted
    /\ startLog.calls = 2
    /\ call.name = "start" /\ trace = <<>>
    /\ \E i \in 1..Len(startCount) : startCount[i] = 1

\* C8: with logical coordinates in use, the letterbox translate, the scale
\* and the two bars have the values of the stated formulas; on an 800 by 400
\* canvas with logicalWidth 20 and aspectRatio 1 these are 200, 600 and 20.
C8_LetterboxFormulas ==
    (call.name = "draw" /\ RGt(logicalWidth, Num(0)) /\ RGt(aspectRatio, Num(0))) =>
        LET W == Num(canvas.width)
            H == Num(canvas.height)
            Half(x) == RDiv(x, Num(2))
        IN  /\ IF RGt(aspectRatio, RDiv(H, W))
               THEN LET b1 == RSub(Half(W), Half(RDiv(H, aspectRatio)))
                        b2 == RAdd(Half(W), Half(RDiv(H, aspectRatio)))
                        sf == RDiv(H, logicalWidth)
                    IN  /\ Transforms[1] = <<"translate", <<b1, Num(0)>>>>
                        /\ Transforms[2] = <<"scale", <<sf, sf>>>>
                        /\ ~call.raised =>
                              /\ Rects[2] = <<Num(0), Num(0), b1, H>>
                              /\ Rects[3] = <<b2, Num(0), W, H>>
               ELSE LET b1 == RSub(Half(H), Half(RMul(W, aspectRatio)))
                        b2 == RAdd(Half(RMul(W, aspectRatio)), Half(H))
                        sf == RDiv(W, RDiv(logicalWidth, aspectRatio))
                    IN  /\ Transforms[1] = <<"translate", <<Num(0), b1>>>>
                        /\ Transforms[2] = <<"scale", <<sf, sf>>>>
                        /\ ~call.raised =>
                              /\ Rects[2] = <<Num(0), Num(0), W, b1>>
                              /\ Rects[3] = <<Num(0), b2, W, H>>
            /\ (canvas = [width |-> 800, height |-> 400]
                  /\ logicalWidth = Num(20) /\ aspectRatio = Num(1)) =>
                  /\ Transforms[1] = <<"translate", <<Num(200), Num(0)>>>>
                  /\ Transforms[2] = <<"scale", <<Num(20), Num(20)>>>>
                  /\ ~call.raised => Rects[2][3] = Num(200) /\ Rects[3][1] = Num(600)

C8_Witness ==
    /\ Returned("draw")
    /\ canvas = [width |-> 800, height |-> 400]
    /\ logicalWidth = Num(20) /\ aspectRatio = Num(1)
    /\ Rects[3][1] = Num(600)

\* The letterbox transform fits a logical rectangle w wide and h high:
\* translated and scaled by one factor on both axes, it lies inside the
\* canvas, spans it on one axis and is centred on the other, and the two
\* bars, clipped to the canvas, are the rest of the canvas.
LetterboxFits(w, h) ==
    (call.name = "draw" /\ RGt(logicalWidth, Num(0)) /\ RGt(aspectRatio, Num(0))) =>
        LET W == Num(canvas.width)
            H == Num(canvas.height)
            x1 == Transforms[1][2][1]
            y1 == Transforms[1][2][2]
            x2 == RAdd(x1, RMul(w, Transforms[2][2][1]))
            y2 == RAdd(y1, RMul(h, Transforms[2][2][2]))
        IN  /\ Transforms[1][1] = "translate" /\ Transforms[2][1] = "scale"
            /\ Transforms[2][2][1] = Transforms[2][2][2]
            /\ RGt(Transforms[2][2][1], Num(0))
            /\ RLe(Num(0), x1) /\ RLe(x1, x2) /\ RLe(x2, W)
            /\ RLe(Num(0), y1) /\ RLe(y1, y2) /\ RLe(y2, H)
            /\ \/ /\ y1 = Num(0) /\ y2 = H
                  /\ RAdd(x1, x2) = W
                  /\ ~call.raised =>
                        /\ Rects[2] = <<Num(0), Num(0), x1, H>>
                        /\ Rects[3][1] = x2 /\ Rects[3][2] = Num(0)
                        /\ RLe(W, RAdd(Rects[3][1], Rects[3][3]))
                        /\ Rects[3][4] = H
               \/ /\ x1 = Num(0) /\ x2 = W
                  /\ RAdd(y1, y2) = H
                  /\ ~call.raised =>
                        /\ Rects[2] = <<Num(0), Num(0), W, y1>>
                        /\ Rects[3][1] = Num(0) /\ Rects[3][2] = y2
                        /\ Rects[3][3] = W
                        /\ RLe(H, RAdd(Rects[3][2], Rects[3][4]))

\* C9 as stated: the logical rectangle is logicalWidth wide and
\* logicalWidth/aspectRatio high.
C9_FitsWidthByWidthOverRatio ==
    LetterboxFits(logicalWidth, RDiv(logicalWidth, aspectRatio))

\* C9, amended: with logical coordinates in use the letterbox transform fits
\* the logical rectangle that is logicalWidth/aspectRatio wide and
\* logicalWidth high (aspectRatio being height over width) into the canvas:
\* inside it, aspect ratio kept, centred on the letterboxed axis, the bars
\* filling the rest.
C9_LetterboxFit ==
    LetterboxFits(RDiv(logicalWidth, aspectRatio), logicalWidth)

\* Bars left and right of a content twice as high as wide on a 400 by 600 canvas.
C9_Witness ==
    /\ Returned("draw")
    /\ canvas = [width |-> 400, height |-> 600]
    /\ logicalWidth = Num(20) /\ aspectRatio = Num(2)
    /\ Rects[2][3] = Num(50) /\ Rects[3][1] = Num(350)

\* C10: a hook that raises is the last thing its Scene call does: the call
\* raises, the hook is of the call's kind and was invoked once, and no hook of
\* an object later in the call's iteration order was invoked.
C10_RaisePropagates ==
    \A p \in 1..Len(trace) :
        trace[p].threw =>
            LET r == trace[p].obj
            IN  /\ call.raised
                /\ p = Len(trace)
                /\ trace[p].op = call.name
                /\ Count(trace, call.name, r) = 1
                /\ \A i \in 1..Len(gameObjects) :
                      (IF call.name = "draw"
                       THEN \/ gameObjects[i].layer > gameObjects[r].layer
                            \/ gameObjects[i].layer = gameObjects[r].layer /\ i > r
                       ELSE i > r)
                          => Count(trace, call.name, i) = 0

\* The draw hook of the object drawn first raises and the other object, which
\* has a draw hook too, is not drawn.
C10_Witness ==
    /\ call.name = "draw" /\ call.raised
    /\ Len(gameObjects) = 2
    /\ gameObjects[1].draw /\ gameObjects[2].draw
    /\ Cardinality(Hooks("draw")) = 1

\* C11: a draw leaves gameObjects as it was, members and order (the sort is
\* of a copy), and leaves the camera's transform, hasStarted, logicalWidth and
\* aspectRatio as they were; gameObjects only ever grows at its end, so that
\* positions are insertion order, and update and _start invoke their hooks in
\* ascending position, whatever the layers and however often draw ran.
C11_DrawLeavesSceneUnchanged ==
    [][/\ call'.name = "draw" =>
             /\ gameObjects' = gameObjects
             /\ camera' = camera
             /\ hasStarted' = hasStarted
             /\ logicalWidth' = logicalWidth
             /\ aspectRatio' = aspectRatio
       /\ Len(gameObjects') >= Len(gameObjects)
       /\ SubSeq(gameObjects', 1, Len(gameObjects)) = gameObjects
       /\ call'.name \in {"update", "start"} =>
             \A p, q \in 1..Len(trace') :
                 (p < q /\ trace'[p].obj # 0) => trace'[p].obj < trace'[q].obj]_vars

\* An update after a draw (only draw sets the background fill style) of a
\* layer-3 object added before a layer -1 object: the update visits the
\* layer-3 object first.
C11_Witness ==
    /\ Returned("update")
    /\ ctx.fillStyle = backgroundColor
    /\ Len(gameObjects) = 2
    /\ gameObjects[1].layer = 3 /\ gameObjects[2].layer = -1
    /\ Len(trace) = 2 /\ trace[1].obj = 1 /\ trace[2].obj = 2

\* The start hooks there are, in the order of the start pass: the scene's own
\* (0) if it has one, then those of the game objects that have one, by position.
StartOrder ==
    LET HasStart(i) == gameObjects[i].start
    IN  (IF sceneStart THEN <<0>> ELSE <<>>)
            \o SelectSeq([i \in 1..Len(gameObjects) |-> i], HasStart)

\* C12: the _start call that performs the start pass invokes start hooks and
\* nothing else: the scene's own first, if it has one, then the game objects'
\* in insertion order, skipping those without one; all of them if no hook
\* raises, and those up to the raising one otherwise.
C12_StartPassOrder ==
    (call.name = "start" /\ startLog.calls = 1) =>
        /\ \A p \in 1..Len(trace) : trace[p].op = "start"
        /\ Len(trace) <= Len(StartOrder)
        /\ \A p \in 1..Len(trace) : trace[p].obj = StartOrder[p]
        /\ ~call.raised => Len(trace) = Len(StartOrder)

\* A scene with a start hook and two game objects, the first without a start
\* hook: the pass invokes the scene's hook, then the second object's.
C12_Witness ==
    /\ Returned("start") /\ startLog.calls = 1
    /\ sceneStart
    /\ Len(gameObjects) = 2
    /\ ~gameObjects[1].start /\ gameObjects[2].start
    /\ Len(trace) = 2 /\ trace[1].obj = 0 /\ trace[2].obj = 2

\* C13: the transforms of a draw are, in this order and all between the save
\* and the first draw hook: with logical coordinates in use the letterbox
\* translate and the letterbox scale, and in every case the camera's scale by
\* (scaleX, scaleY) and then the camera's translate by (-x, -y).  The camera
\* is composed on top of the letterbox: every draw hook finds the transform
\* that maps (x, y) to entry(letterbox(camera(x, y))).
C13_TransformOrder ==
    call.name = "draw" =>
        LET using == RGt(logicalWidth, Num(0)) /\ RGt(aspectRatio, Num(0))
            n == Len(Transforms)
            lb == IF using THEN Transforms[1][2] ELSE <<Num(0), Num(0)>>
            sf == IF using THEN Transforms[2][2] ELSE <<Num(1), Num(1)>>
            t0 == call.entry.transform
            a == RMul(RMul(t0.a, sf[1]), camera.scaleX)
            d == RMul(RMul(t0.d, sf[2]), camera.scaleY)
            e == RSub(RAdd(t0.e, RMul(t0.a, lb[1])), RMul(a, camera.x))
            f == RSub(RAdd(t0.f, RMul(t0.d, lb[2])), RMul(d, camera.y))
        IN  /\ n = IF using THEN 4 ELSE 2
            /\ using => Transforms[1][1] = "translate" /\ Transforms[2][1] = "scale"
            /\ Transforms[n - 1] = <<"scale", <<camera.scaleX, camera.scaleY>>>>
            /\ Transforms[n] = <<"translate", <<RNeg(camera.x), RNeg(camera.y)>>>>
            /\ \A p \in 1..Len(trace) :
                  trace[p].op \in {"translate", "scale"} =>
                      /\ \E s \in Hooks("save") : s < p
                      /\ \A q \in Hooks("draw") \cup Hooks("restore") : p < q
            /\ \A q \in Hooks("draw") :
                  trace[q].ctx.transform = [a |-> a, d |-> d, e |-> e, f |-> f]

\* A frame letterboxed left and right under the moved and zoomed camera,
\* begun with a transform other than the identity, that drew both objects.
C13_Witness ==
    /\ call.name = "draw"
    /\ Len(Transforms) = 4
    /\ Transforms[1][2][1] # Num(0)
    /\ camera.x = Num(5) /\ camera.scaleX = Num(2)
    /\ call.entry.transform # Identity
    /\ Cardinality(Hooks("draw")) = 2

\* C14: a draw with logical coordinates in use that returns has done, in this
\* order: the background fill of the whole canvas, the save, the draw hooks,
\* the restore, and the two bars and nothing after them.  The bars are filled
\* in black under the transform the call was entered with (the letterbox and
\* the camera undone), left and right of [letterBox1End, letterBox2Start] when
\* aspectRatio > canvas.height / canvas.width, above and below it otherwise.
C14_FrameOrder ==
    (Returned("draw") /\ RGt(logicalWidth, Num(0)) /\ RGt(aspectRatio, Num(0))) =>
        LET W == Num(canvas.width)
            H == Num(canvas.height)
            n == Len(trace)
            Half(x) == RDiv(x, Num(2))
            content == IF RGt(aspectRatio, RDiv(H, W))
                       THEN RDiv(H, aspectRatio) ELSE RMul(W, aspectRatio)
            extent == IF RGt(aspectRatio, RDiv(H, W)) THEN W ELSE H
            b1 == RSub(Half(extent), Half(content))
            b2 == RAdd(Half(extent), Half(content))
        IN  /\ trace[1].op = "fillRect"
            /\ trace[1].args = <<Num(0), Num(0), W, H>>
            /\ trace[1].ctx.fillStyle = backgroundColor
            /\ trace[2].op = "save"
            /\ Hooks("save") = {2}
            /\ Hooks("restore") = {n - 2}
            /\ Hooks("fillRect") = {1, n - 1, n}
            /\ Cardinality(Hooks("draw")) =
                  Cardinality({i \in 1..Len(gameObjects) : gameObjects[i].draw})
            /\ \A p \in Hooks("draw") : 2 < p /\ p < n - 2
            /\ \A p \in {n - 1, n} :
                  /\ trace[p].ctx.fillStyle = "black"
                  /\ trace[p].ctx.transform = call.entry.transform
                  /\ trace[p].ctx.depth = call.entry.depth
            /\ IF RGt(aspectRatio, RDiv(H, W))
               THEN /\ trace[n - 1].args = <<Num(0), Num(0), b1, H>>
                    /\ trace[n].args = <<b2, Num(0), W, H>>
               ELSE /\ trace[n - 1].args = <<Num(0), Num(0), W, b1>>
                    /\ trace[n].args = <<Num(0), b2, W, H>>

\* A frame of a content half as high as wide on a 400 by 600 canvas: bars
\* above 200 and below 400, filled after both objects were drawn.
C14_Witness ==
    /\ Returned("draw")
    /\ canvas = [width |-> 400, height |-> 600]
    /\ logicalWidth = Num(30) /\ aspectRatio = Rat(1, 2)
    /\ Len(trace) = 11
    /\ trace[10].args = <<Num(0), Num(0), Num(400), Num(200)>>
    /\ trace[11].args = <<Num(0), Num(400), Num(400), Num(600)>>
    /\ trace[9].op = "restore" /\ trace[8].op = "draw"

\* C15: the _start call in which a start hook raises has set hasStarted, and
\* has invoked the start hook of no game object after the one that raised
\* (of none at all if the scene's own hook raised); from then on no _start
\* call invokes a hook, raises or touches the context, and no game object's
\* start hook is invoked again or for the first time.
C15_RaisedStartNeverResumes ==
    [][/\ (startLog.calls = 0 /\ call'.name = "start" /\ call'.raised) =>
             /\ hasStarted'
             /\ trace'[Len(trace')].threw
             /\ \A i \in 1..Len(gameObjects') :
                   i > trace'[Len(trace')].obj => startCount'[i] = 0
       /\ startLog.raised =>
             /\ \A i \in 1..Len(startCount') :
                   startCount'[i] = IF i <= Len(startCount) THEN startCount[i] ELSE 0
             /\ call'.name = "start" =>
                   trace' = <<>> /\ ~call'.raised /\ ctx' = ctx]_vars

\* The start hook of the first of two game objects raised in the first
\* _start call; a later _start call did nothing, and the second object,
\* which has a start hook, was never started.
C15_Witness ==
    /\ startLog = [calls |-> 2, len |-> 2, raised |-> TRUE]
    /\ call.name = "start" /\ trace = <<>>
    /\ Len(gameObjects) = 2
    /\ gameObjects[1].start /\ gameObjects[2].start
    /\ startCount = <<1, 0>>

\* C16: a game object added after the first _start call never has its start
\* hook invoked, in no later _start call either; an update or a draw that
\* returns has invoked its update or draw hook, if it has one, once.
C16_LateObjectNeverStarted ==
    startLog.calls >= 1 =>
        \A i \in (startLog.len + 1)..Len(gameObjects) :
            /\ startCount[i] = 0
            /\ call.name = "start" => Count(trace, "start", i) = 0
            /\ Returned("update") =>
                  Count(trace, "update", i) = IF gameObjects[i].update THEN 1 ELSE 0
            /\ Returned("draw") =>
                  Count(trace, "draw", i) = IF gameObjects[i].draw THEN 1 ELSE 0

\* A second _start call on a scene whose second game object, which has a
\* start hook, was added after the first _start call.
C16_Witness ==
    /\ startLog.calls = 2 /\ startLog.len = 1
    /\ call.name = "start"
    /\ Len(gameObjects) = 2
    /\ gameObjects[2].start
    /\ startCount[2] = 0

\* C17: a draw in which a draw hook raises has saved the context and not
\* restored it, and fills no bar: it leaves the save stack one level deeper
\* than it found it, the state it was entered with on top of the stack, and
\* the context with the transform (letterbox and camera applied) and the
\* filter (that of the raising object's layer) that the raising hook found.
C17_RaisedDrawLeaksSave ==
    (call.name = "draw" /\ call.raised) =>
        LET last == trace[Len(trace)]
            top == ctx.stack[Len(ctx.stack)]
        IN  /\ last.op = "draw" /\ last.threw
            /\ Cardinality(Hooks("save")) = 1
            /\ Hooks("restore") = {}
            /\ Len(Rects) = 1
            /\ Len(ctx.stack) = call.entry.depth + 1
            /\ top.transform = call.entry.transform
            /\ top.filter = call.entry.filter
            /\ ctx.transform = last.ctx.transform
            /\ Len(Transforms) =
                  IF RGt(logicalWidth, Num(0)) /\ RGt(aspectRatio, Num(0)) THEN 4 ELSE 2
            /\ ctx.filter = last.ctx.filter
            /\ ctx.filter = IF gameObjects[last.obj].layer = -1
                            THEN "blur(2px)" ELSE "none"

\* The draw hook of the glow object raises in a letterboxed frame under the
\* zooming camera: the context keeps the blur filter and a transform other
\* than the one the call was entered with.
C17_Witness ==
    /\ call.name = "draw" /\ call.raised
    /\ RGt(logicalWidth, Num(0)) /\ RGt(aspectRatio, Num(0))
    /\ camera.scaleX = Num(2)
    /\ call.entry.filter = "none" /\ ctx.filter = "blur(2px)"
    /\ ctx.transform # call.entry.transform
    /\ Len(ctx.stack) = 1

\* The game objects whose draw hook the call invoked, in the order of the calls.
DrawSequence(t) ==
    LET IsDraw(e) == e.op = "draw"
        d == SelectSeq(t, IsDraw)
    IN  [p \in 1..Len(d) |-> d[p].obj]

\* Sequence a is the beginning of sequence b.
IsPrefix(a, b) == Len(a) <= Len(b) /\ a = SubSeq(b, 1, Len(a))

\* C18: a draw invokes the draw hooks of game objects of equal layer in
\* insertion order, and a draw that follows a draw on the same collection
\* invokes the draw hooks in the same sequence: the same hooks in the same
\* order if both return, and one sequence the beginning of the other if a
\* hook raised and cut one short.
C18_DrawOrderDeterministic ==
    [][/\ call'.name = "draw" =>
             \A p, q \in 1..Len(DrawSequence(trace')) :
                 (/\ p < q
                  /\ gameObjects'[DrawSequence(trace')[p]].layer
                        = gameObjects'[DrawSequence(trace')[q]].layer)
                     => DrawSequence(trace')[p] < DrawSequence(trace')[q]
       /\ (call.name = "draw" /\ call'.name = "draw") =>
             /\ gameObjects' = gameObjects
             /\ \/ IsPrefix(DrawSequence(trace), DrawSequence(trace'))
                \/ IsPrefix(DrawSequence(trace'), DrawSequence(trace))
             /\ (~call.raised /\ ~call'.raised) =>
                   DrawSequence(trace') = DrawSequence(trace)]_vars

\* Two game objects of layer 3, drawn in the order they were added.
C18_Witness ==
    /\ Returned("draw")
    /\ Len(gameObjects) = 2
    /\ gameObjects[1].layer = 3 /\ gameObjects[2].layer = 3
    /\ DrawSequence(trace) = <<1, 2>>

\* C19: an update of the KeyboardComponent takes the last of Left, Right, Up,
\* Down that is held for nextMove (Down over Up over Right over Left; the
\* old nextMove if none is held).  If the timer less the frame's delta time
\* is <= 0, the timer is reset to timeBetweenMoves (1), the transform moves
\* by speed (10) along one axis in the direction of nextMove, the immediate
\* body part, if any, takes the position the component had, and no other
\* body part moves; otherwise the timer is what is left and no transform
\* changes.
C19_KeyboardMove ==
    [][LET keys == input'.keysDown
           t == RSub(keyboard.timeLeftToMove, input'.deltaTime)
           dir == IF "ArrowDown" \in keys THEN "DOWN"
                  ELSE IF "ArrowUp" \in keys THEN "UP"
                  ELSE IF "ArrowRight" \in keys THEN "RIGHT"
                  ELSE IF "ArrowLeft" \in keys THEN "LEFT"
                  ELSE keyboard.nextMove
       IN  /\ keyboard'.nextMove = dir
           /\ Len(keyboard'.body) = Len(keyboard.body)
           /\ IF t[1] <= 0
              THEN /\ keyboard'.timeLeftToMove = <<1, 1>>
                   /\ <<keyboard'.x - keyboard.x, keyboard'.y - keyboard.y>> =
                         CASE dir = "UP" -> <<0, -10>>
                           [] dir = "DOWN" -> <<0, 10>>
                           [] dir = "LEFT" -> <<-10, 0>>
                           [] dir = "RIGHT" -> <<10, 0>>
                   /\ \A i \in 1..Len(keyboard.body) :
                         keyboard'.body[i] =
                             IF i = 1 THEN <<keyboard.x, keyboard.y>>
                             ELSE keyboard.body[i]
              ELSE /\ keyboard'.timeLeftToMove = t
                   /\ keyboard'.x = keyboard.x /\ keyboard'.y = keyboard.y
                   /\ keyboard'.body = keyboard.body]_vars

\* With Left, Up and Down held the component, two body parts behind it, has
\* moved down from the origin: the first body part is at the origin, the
\* second where it was.
C19_Witness ==
    /\ input.keysDown = {"ArrowLeft", "ArrowUp", "ArrowDown"}
    /\ keyboard.timeLeftToMove = Num(1)
    /\ keyboard.nextMove = "DOWN"
    /\ keyboard.x = 0 /\ keyboard.y = 10
    /\ keyboard.body = << <<0, 0>>, <<0, -20>> >>

====
